---------------------------- MODULE Spec2Model ----------------------------
(***************************************************************************)
(* A model of osmium::builder::Builder (osmium/builder/builder.hpp): the   *)
(* handle that builds one size-prefixed record inside a growable Buffer.   *)
(*                                                                         *)
(* The Buffer (osmium/memory/buffer.hpp) and the Item header               *)
(* (osmium/memory/item.hpp) are collaborators whose code is not part of    *)
(* the sources modelled here; they are modelled from their contracts.      *)
(*                                                                         *)
(* The Buffer's storage is the sequence m_data of cells, one cell per      *)
(* byte, cell i+1 being the byte at address m_base + i; the bytes written  *)
(* so far are exactly Len(m_data).  The size field of an Item (the first   *)
(* member of the header) is held as one number in the first cell of the    *)
(* record.  A reserved byte nobody has written yet holds Uninit.           *)
(*                                                                         *)
(* Builders are numbered in the order they are constructed (since the      *)
(* last commit).  m_parent is a raw, non-owning pointer: calling through   *)
(* it after the parent was destroyed is undefined behaviour, and the       *)
(* model takes no such step (ChainLive).                                   *)
(***************************************************************************)
EXTENDS Integers, Sequences, FiniteSets, TLC

VARIABLES
    ndebug,           \* TRUE: built with NDEBUG (asserts and counter compiled out)
    failed,           \* "none", or the assertion that aborted the program
    m_data,           \* Buffer: the bytes written so far (committed ones included)
    m_committed,      \* Buffer: offset of the end of the committed bytes
    m_base,           \* Buffer: address of the backing storage (Buffer::data())
    m_capacity,       \* Buffer: size of the backing storage
    m_builder_count,  \* Buffer: the number of open Builders (instrumented builds)
    builders,         \* Builder objects by number: [m_parent, m_item_offset]
    live,             \* the Builders constructed and not yet destroyed
    hist,             \* history, per Builder: what the caller did through it
    calls,            \* history: the calls made on Builders so far
    budget,           \* how far a behaviour is followed: calls, bytes, Builders
    last,             \* history: the operation that led to this state
    argv,             \* parse_command_line: the arguments, argv[0] first
    optind,           \* getopt: the index (0-based) of the next argument
    options,          \* parse_command_line: the options_t being filled
    print_help,       \* parse_command_line: -h was seen
    pc,               \* parse_command_line: where the call is
    thrown            \* "none", or the message of the exception thrown

builder_vars == <<ndebug, failed, m_data, m_committed, m_base, m_capacity,
                  m_builder_count, builders, live, hist, calls, budget, last>>

parser_vars == <<argv, optind, options, print_help, pc, thrown>>

vars == <<ndebug, failed, m_data, m_committed, m_base, m_capacity,
          m_builder_count, builders, live, hist, calls, budget, last,
          argv, optind, options, print_help, pc, thrown>>

-----------------------------------------------------------------------------
(* Program constants *)

align_bytes == 8

Uninit == -1

(* Bounds of the model *)

\* Spec follows every operation of the interface, called on any open
\* Builder in any order; SpecProtocol follows the operations of the size
\* protocol, called on the innermost open Builder, for more calls and
\* more bytes.  For each of the two: no step writes past this many bytes;
MaxWritten == 32

MaxProtocolWritten == 40

\* this many Builders are constructed between two commits;
MaxBuilders == 3

MaxProtocolBuilders == 2

\* this many calls are made on Builders (the append family, add_size,
\* add_padding, add_item, reserve_space_for), over all Builders.
MaxCalls == 2

MaxProtocolCalls == 3

\* The arguments on a command line, the program's name not counted.
MaxArgs == 4

\* The Buffer's owner commits a record of at most this many bytes.
MaxCommitted == 8

\* The storage the Buffer starts with, its address, and how far a
\* reallocation moves it.
InitialCapacity == 24

Base0 == 1000

Stride == 100

(* Inputs *)

HeaderSizes == {8, 16}

Payloads == { <<1, 2, 3, 4, 5, 6, 7, 8, 9, 10>> }

\* The memory a const char* points to: "Hi", its terminator, and what
\* happens to lie behind it.
CStrings == { <<72, 105, 0, 33>> }

Deltas == {5, 10}

\* A finished item: an 8-byte header whose size field says 13, 5 bytes of
\* data and the 3 bytes that pad it.
Items == { <<13, 0, 0, 0, 0, 0, 0, 0, 1, 2, 3, 4, 5, 0, 0, 0>> }

HeaderTypes == {8}

-----------------------------------------------------------------------------
(* The Buffer and the Item header *)

\* The Buffer as the operators below see it.
Buf == [data |-> m_data, base |-> m_base, capacity |-> m_capacity]

written == Len(m_data)

committed == m_committed

\* Buffer::is_aligned: the tail sits on the alignment boundary.
is_aligned(buf) == Len(buf.data) % align_bytes = 0

\* The capacity the Buffer grows to when `need` bytes do not fit.
RECURSIVE grown_capacity(_, _)
grown_capacity(cap, need) ==
    IF cap >= need THEN cap ELSE grown_capacity(2 * cap, need)

\* Whether reserving n more bytes may move the storage: only when it grows.
Moves(n) == IF written + n > m_capacity THEN BOOLEAN ELSE {FALSE}

\* Buffer::reserve_space: n more bytes at the tail, not yet written; the
\* storage grows when they do not fit, and `moved` says whether growing
\* relocated it.
reserve_space(buf, n, moved) ==
    [data     |-> buf.data \o [i \in 1..n |-> Uninit],
     base     |-> IF Len(buf.data) + n > buf.capacity /\ moved
                  THEN buf.base + Stride ELSE buf.base,
     capacity |-> grown_capacity(buf.capacity, Len(buf.data) + n)]

\* std::copy_n(src, n, target), target being the byte at index `at` (0-based).
copy_n(buf, at, src, n) ==
    [buf EXCEPT !.data =
        [i \in 1..Len(buf.data) |->
            IF i > at /\ i <= at + n THEN src[i - at] ELSE buf.data[i]]]

\* A variant of fill_n that leaves the bytes as reserve_space returned them.
fill_n_none(buf, at, n) == buf

\* std::fill_n(target, n, 0)
fill_n(buf, at, n) ==
    [buf EXCEPT !.data =
        [i \in 1..Len(buf.data) |->
            IF i > at /\ i <= at + n THEN 0 ELSE buf.data[i]]]

\* One byte stored at index `at` (0-based).
store(buf, at, v) == [buf EXCEPT !.data[at + 1] = v]

padded_length(len) == ((len + align_bytes - 1) \div align_bytes) * align_bytes

\* Item::byte_size and Item::padded_size of a finished item given by its bytes.
item_byte_size(item) == item[1]

item_padded_size(item) == padded_length(item_byte_size(item))

\* Item::add_size on the item whose first byte is at index `at` (0-based).
\* The field is a uint32_t; the sizes of this model stay far below 2^32.
item_add_size(buf, at, sz) == [buf EXCEPT !.data[at + 1] = @ + sz]

\* The header a concrete builder constructs in the bytes its Builder reserved:
\* the size field counts the header itself.
construct_item(buf, at, sz) ==
    [buf EXCEPT !.data =
        [i \in 1..Len(buf.data) |->
            IF i = at + 1 THEN sz
            ELSE IF i > at + 1 /\ i <= at + sz THEN 0 ELSE buf.data[i]]]

\* Buffer::add_item: the item's padded bytes copied to the tail.
buffer_add_item(buf, item, moved) ==
    copy_n(reserve_space(buf, item_padded_size(item), moved), Len(buf.data),
           item, item_padded_size(item))

\* strlen: the number of bytes before the first zero byte.
RECURSIVE strlen_from(_, _)
strlen_from(str, i) == IF str[i] = 0 THEN i - 1 ELSE strlen_from(str, i + 1)

strlen(str) == strlen_from(str, 1)

-----------------------------------------------------------------------------
(* Builder: accessors and helpers *)

Ids == 1..Len(builders)

parent_of(b) == builders[b].m_parent

\* A variant of item_pos that forgets the committed bytes; the size
\* invariant has to tell it from item_pos.
item_pos_uncommitted(buf, b) == buf.base + builders[b].m_item_offset

\* A variant of item_pos that keeps the address the storage had at first.
item_pos_initial(buf, b) == Base0 + m_committed + builders[b].m_item_offset

\* Builder::item_pos: an address, recomputed from the Buffer on every use.
item_pos(buf, b) == buf.base + m_committed + builders[b].m_item_offset

\* Builder::item: the index (0-based) in the storage of the record's first
\* byte, the byte item_pos points to.
item_index(buf, b) == item_pos(buf, b) - buf.base

\* Builder::size
size(buf, b) == buf.data[item_index(buf, b) + 1]

\* b and its ancestors, following m_parent.
RECURSIVE Chain(_)
Chain(b) == IF b = 0 THEN {} ELSE {b} \cup Chain(parent_of(b))

\* Every Builder that a call on b reaches through m_parent is alive.
ChainLive(b) == Chain(b) \subseteq live

\* A variant of add_size that does not go on to the parent.
add_size_flat(buf, b, sz) == item_add_size(buf, item_index(buf, b), sz)

\* Builder::add_size
RECURSIVE add_size(_, _, _)
add_size(buf, b, sz) ==
    LET b1 == item_add_size(buf, item_index(buf, b), sz)
    IN  IF parent_of(b) # 0 THEN add_size(b1, parent_of(b), sz) ELSE b1

\* A variant of padding_of that counts from the byte after the record.
padding_of_next(buf, b) == align_bytes - ((size(buf, b) + 1) % align_bytes)

\* The padding add_padding computes.
padding_of(buf, b) == align_bytes - (size(buf, b) % align_bytes)

\* Variants of fold_padding: one that takes self for true, one that adds
\* the padding to one record only, the Builder's own or its parent's.
fold_padding_always_self(buf, b, padding, self) == add_size(buf, b, padding)

fold_padding_exclusive(buf, b, padding, self) ==
    IF self THEN item_add_size(buf, item_index(buf, b), padding)
    ELSE IF parent_of(b) # 0
           THEN item_add_size(buf, item_index(buf, parent_of(b)), padding)
    ELSE buf

\* A variant of fold_padding that takes self for false.
fold_padding_never_self(buf, b, padding, self) ==
    IF parent_of(b) # 0 THEN add_size(buf, parent_of(b), padding) ELSE buf

\* add_padding, once the padding is written: the records it is added to.
fold_padding(buf, b, padding, self) ==
    IF self THEN add_size(buf, b, padding)
    ELSE IF parent_of(b) # 0 THEN add_size(buf, parent_of(b), padding)
    ELSE buf

\* A variant of open_buffer that adds nothing to the parent.
open_buffer_unfolded(buf, parent, sz, moved) ==
    construct_item(reserve_space(buf, sz, moved), Len(buf.data), sz)

\* The Buffer after Builder::Builder and the construction of the header:
\* the header's bytes reserved at the tail, its size added to the parent.
open_buffer(buf, parent, sz, moved) ==
    LET b1 == reserve_space(buf, sz, moved)
        b2 == IF parent # 0 THEN add_size(b1, parent, sz) ELSE b1
    IN  construct_item(b2, Len(buf.data), sz)

\* Variants of count_ok: one lets a sub-Builder be opened beside another,
\* one lets a second Builder without a parent be opened.
count_ok_lax(parent, count) == IF parent # 0 THEN count >= 1 ELSE count = 0

count_ok_top_lax(parent, count) == IF parent # 0 THEN count = 1 ELSE count <= 1

\* What the constructor asserts of the number of open Builders.
count_ok(parent, count) == IF parent # 0 THEN count = 1 ELSE count = 0

-----------------------------------------------------------------------------
(* History: what the callers did, kept beside the program's state *)

\* at: the index (0-based) in the storage of the first byte reserved for
\* the Builder's header; header: the header size it was opened with;
\* folded: the sum of the deltas given to add_size on this Builder or on a
\* descendant (by the caller, by a constructor, by add_padding or by
\* add_item); appended: the bytes the append family wrote through this
\* Builder; grown: the sum of the deltas the caller gave to add_size on
\* this Builder; pads, selfpads: the calls of add_padding(false) and of
\* add_padding(true) on this Builder.
NewHist(at, sz) ==
    [at |-> at, header |-> sz, folded |-> 0, appended |-> 0, grown |-> 0,
     pads |-> 0, selfpads |-> 0]

Fold(h, S, d) ==
    [i \in 1..Len(h) |->
        IF i \in S THEN [h[i] EXCEPT !.folded = @ + d] ELSE h[i]]

Op(name, b, arg, self) == [op |-> name, b |-> b, arg |-> arg, self |-> self]

SetBuffer(buf) ==
    /\ m_data' = buf.data
    /\ m_base' = buf.base
    /\ m_capacity' = buf.capacity

\* A failed assert aborts the program: the process and its memory are gone.
\* Only the build, the assertion that failed and the call that failed it
\* are kept.
Abort(name, op) ==
    /\ failed' = name
    /\ last' = op
    /\ m_data' = <<>>
    /\ m_committed' = 0
    /\ m_base' = Base0
    /\ m_capacity' = InitialCapacity
    /\ m_builder_count' = 0
    /\ builders' = <<>>
    /\ live' = {}
    /\ hist' = <<>>
    /\ calls' = 0
    /\ UNCHANGED <<parser_vars, ndebug, budget>>

-----------------------------------------------------------------------------
\* A failed assert.  It aborts an instrumented build.  An NDEBUG build
\* compiles the check out and the library promises nothing to a caller who
\* breaks it: the model follows no such caller.
Fail(name, op) == ~ndebug /\ Abort(name, op)

\* The number of open Builders the constructor's asserts compare.  An NDEBUG
\* build keeps no counter: there the condition is about the Builders that
\* are open.
builder_count == IF ndebug THEN Cardinality(live) ELSE m_builder_count

-----------------------------------------------------------------------------
(* parse_command_line (osm2pgsql, src/command-line-parser.cpp): data      *)
(*                                                                        *)
(* An argument is modelled by the option getopt_long returns for it and,  *)
(* where the option takes one, its value.  getopt_long permutes argv:     *)
(* the options are returned in the order they are given, wherever the     *)
(* file names stand, and when it returns -1 optind is the index of the    *)
(* first file name.                                                       *)

\* The options_t the parser starts with (options.hpp; the defaults are those
\* the usage text gives).
default_cache == 800

default_middle_database_format == 1

\* The largest zoom level for tile expiry, and the SRS of PROJ_SPHERE_MERC;
\* target_srs = 0 stands for options.projection being null.
max_zoom == 31

srs_sphere_merc == 3857

options_t ==
    [command                |-> "process",
     append                 |-> FALSE,
     create                 |-> FALSE,
     slim                   |-> FALSE,
     droptemp               |-> FALSE,
     cache                  |-> default_cache,
     middle_database_format |-> default_middle_database_format,
     hstore_mode            |-> "none",
     hstore_columns         |-> <<>>,
     hstore_match_only      |-> FALSE,
     enable_hstore_index    |-> FALSE,
     expire_tiles_zoom_min  |-> 0,
     expire_tiles_zoom      |-> 0,
     target_srs             |-> 0,
     dbschema               |-> "public",
     middle_dbschema        |-> "",
     output_dbschema        |-> "",
     input_files            |-> <<>>]

Arg(name, val) == [opt |-> name, val |-> val]

ProgramName == Arg("osm2pgsql", "")

\* A file name.
File == Arg("FILE", "data.osm")

\* The arguments about the mode of the import, -h and -V, and one that
\* getopt_long does not know.
ModeArgs ==
    {Arg("a", ""), Arg("c", ""), Arg("s", ""), Arg("drop", ""),
     Arg("h", ""), Arg("V", ""),
     Arg("C", "0"),
     Arg("middle-database-format", "new"),
     Arg("?", "")}

\* The arguments about tile expiry: -e with one zoom level, with two in
\* either order, with a level above the limit, and with texts that
\* parse_expire_tiles_param refuses; -l, which selects a projection other
\* than Mercator.
ExpireArgs ==
    {Arg("e", "7"), Arg("e", "3-5"), Arg("e", "5-3"), Arg("e", "40"),
     Arg("e", "0"), Arg("e", "5x"), Arg("e", "5-"), Arg("e", "-3"),
     Arg("l", "")}

\* The arguments about schemas: --schema, --middle-schema and
\* --output-pgsql-schema with names, with the empty name and with a name
\* check_identifier refuses; -h and -V.
SchemaArgs ==
    {Arg("schema", "a"), Arg("schema", "b"), Arg("schema", ""),
     Arg("middle-schema", "m"), Arg("middle-schema", "a;"),
     Arg("output-pgsql-schema", "o"), Arg("output-pgsql-schema", ""),
     Arg("h", ""), Arg("V", "")}

\* The arguments about hstore: -k, -j and --hstore-match-only; -h and -V.
HstoreArgs ==
    {Arg("k", ""), Arg("j", ""), Arg("hstore-match-only", ""),
     Arg("h", ""), Arg("V", "")}

is_option(a) == a.opt # "FILE"

\* The index (0-based) of the first option at or after index i, argc if
\* there is none: where getopt_long finds the option it returns next.
RECURSIVE next_option(_, _)
next_option(args, i) ==
    IF i >= Len(args) THEN Len(args)
    ELSE IF is_option(args[i + 1]) THEN i
    ELSE next_option(args, i + 1)

\* The file names, in the order given: argv[optind..] once getopt_long
\* has returned -1.
input_files_of(args) ==
    SelectSeq(SubSeq(args, 2, Len(args)), LAMBDA a : ~is_option(a))

\* atoi of the values the model gives to -C.
atoi(str) == IF str = "0" THEN 0 ELSE default_cache

Threw(msg, o) == [thrown |-> msg, options |-> o]

Returned(o) == [thrown |-> "none", options |-> o]

\* A variant of check_options that lets --drop pass without --slim.
check_options_drop_unchecked(o) ==
    IF o.append /\ o.create
      THEN Threw("--append and --create options can not be used at the same time!", o)
    ELSE IF o.append /\ ~o.slim
      THEN Threw("--append can only be used with slim mode!", o)
    ELSE IF o.cache = 0 /\ ~o.slim
      THEN Threw("RAM node cache can only be disabled in slim mode.", o)
    ELSE Returned(o)

\* check_options: the exception it throws, or the options as it leaves
\* them.  The warnings it logs are not modelled.
check_options(o) ==
    IF o.append /\ o.create
      THEN Threw("--append and --create options can not be used at the same time!", o)
    ELSE IF o.append /\ ~o.slim
      THEN Threw("--append can only be used with slim mode!", o)
    ELSE IF o.droptemp /\ ~o.slim
      THEN Threw("--drop only makes sense with --slim.", o)
    ELSE IF o.append /\ o.middle_database_format # 1
      THEN Threw("Do not use --middle-database-format with --append.", o)
    ELSE
      LET no_hstore == o.hstore_mode = "none" /\ o.hstore_columns = <<>>
          o1 == IF no_hstore /\ o.hstore_match_only
                  THEN [o EXCEPT !.hstore_match_only = FALSE] ELSE o
          o2 == IF o1.enable_hstore_index /\ no_hstore
                  THEN [o1 EXCEPT !.enable_hstore_index = FALSE] ELSE o1
          o3 == IF o2.cache < 0 THEN [o2 EXCEPT !.cache = 0] ELSE o2
          o4 == IF o3.expire_tiles_zoom_min > max_zoom
                  THEN [o3 EXCEPT !.expire_tiles_zoom_min = max_zoom] ELSE o3
          o5 == IF o4.expire_tiles_zoom > max_zoom
                  THEN [o4 EXCEPT !.expire_tiles_zoom = max_zoom] ELSE o4
          o6 == IF o5.expire_tiles_zoom # 0 /\ o5.target_srs # srs_sphere_merc
                  THEN [o5 EXCEPT !.expire_tiles_zoom = 0] ELSE o5
      IN  IF o3.cache = 0 /\ ~o3.slim
            THEN Threw("RAM node cache can only be disabled in slim mode.", o3)
          ELSE Returned(o6)

\* The SRS of PROJ_LATLONG, which -l selects.
srs_latlong == 4326

\* The characters of the texts the model gives to -e.
Chars(text) ==
    CASE text = "7"   -> <<"7">>
      [] text = "3-5" -> <<"3", "-", "5">>
      [] text = "5-3" -> <<"5", "-", "3">>
      [] text = "40"  -> <<"4", "0">>
      [] text = "0"   -> <<"0">>
      [] text = "5x"  -> <<"5", "x">>
      [] text = "5-"  -> <<"5", "-">>
      [] text = "-3"  -> <<"-", "3">>
      [] OTHER        -> <<>>

\* The character at index i of a text; the index Len + 1 is the
\* terminating '\0'.
CharAt(str, i) == IF i <= Len(str) THEN str[i] ELSE "NUL"

DigitChars == {"0", "1", "2", "3", "4", "5", "6", "7", "8", "9"}

isdigit(ch) == ch \in DigitChars

DigitVal(ch) ==
    CASE ch = "0" -> 0 [] ch = "1" -> 1 [] ch = "2" -> 2 [] ch = "3" -> 3
      [] ch = "4" -> 4 [] ch = "5" -> 5 [] ch = "6" -> 6 [] ch = "7" -> 7
      [] ch = "8" -> 8 [] ch = "9" -> 9

\* The digits of str from index i on: the number read so far and the
\* index of the first character that is no digit.
RECURSIVE read_digits(_, _, _)
read_digits(str, i, acc) ==
    IF isdigit(CharAt(str, i))
      THEN read_digits(str, i + 1, 10 * acc + DigitVal(CharAt(str, i)))
      ELSE [value |-> acc, next |-> i]

\* strtoul(str + i, &next, 10) for the numbers the model gives, which are
\* below 2^31, so that the cast to uint32_t leaves them as they are: an
\* optional '+', then digits; without a digit the value is 0 and next is
\* where the call began.
strtoul(str, i) ==
    LET start == IF CharAt(str, i) = "+" THEN i + 1 ELSE i
        r     == read_digits(str, start, 0)
    IN  IF r.next = start THEN [value |-> 0, next |-> i]
        ELSE r

\* A variant of parse_expire_tiles_param that forgets the maximum when one
\* zoom level is given.
parse_expire_tiles_param_min_only(arg, o) ==
    IF CharAt(arg, 1) = "-"
      THEN Threw("Missing argument for option --expire-tiles. Zoom levels must be positive.", o)
    ELSE
      LET first == strtoul(arg, 1)
          o1    == [o EXCEPT !.expire_tiles_zoom_min = first.value]
      IN  IF first.value = 0
            THEN Threw("Bad argument for option --expire-tiles. Minimum zoom level must be larger than 0.", o1)
          ELSE IF CharAt(arg, first.next) = "-"
            THEN IF isdigit(CharAt(arg, first.next + 1))
                   THEN LET second == strtoul(arg, first.next + 1)
                            o2 == [o1 EXCEPT !.expire_tiles_zoom = second.value]
                        IN  IF second.value = 0
                               \/ CharAt(arg, second.next) # "NUL"
                              THEN Threw("Invalid maximum zoom level given for tile expiry.", o2)
                            ELSE Returned(o2)
                   ELSE Threw("Invalid maximum zoom level given for tile expiry.", o1)
          ELSE IF CharAt(arg, first.next) = "NUL"
            THEN Returned(o1)
          ELSE Threw("Minimum and maximum zoom level for tile expiry must be separated by '-'.", o1)

\* parse_expire_tiles_param: the exception it throws, or the options with
\* the two zoom levels it has written.
parse_expire_tiles_param(arg, o) ==
    IF CharAt(arg, 1) = "-"
      THEN Threw("Missing argument for option --expire-tiles. Zoom levels must be positive.", o)
    ELSE
      LET first == strtoul(arg, 1)
          o1    == [o EXCEPT !.expire_tiles_zoom_min = first.value]
      IN  IF first.value = 0
            THEN Threw("Bad argument for option --expire-tiles. Minimum zoom level must be larger than 0.", o1)
          ELSE IF CharAt(arg, first.next) = "-"
            THEN IF isdigit(CharAt(arg, first.next + 1))
                   THEN LET second == strtoul(arg, first.next + 1)
                            o2 == [o1 EXCEPT !.expire_tiles_zoom = second.value]
                        IN  IF second.value = 0
                               \/ CharAt(arg, second.next) # "NUL"
                              THEN Threw("Invalid maximum zoom level given for tile expiry.", o2)
                            ELSE Returned(o2)
                   ELSE Threw("Invalid maximum zoom level given for tile expiry.", o1)
          ELSE IF CharAt(arg, first.next) = "NUL"
            THEN Returned([o1 EXCEPT !.expire_tiles_zoom = first.value])
          ELSE Threw("Minimum and maximum zoom level for tile expiry must be separated by '-'.", o1)

\* check_identifier: whether it accepts the name.
check_identifier(name) == name \notin {"a;"}

\* An option that sets a schema: the options with the field written, or
\* the exception for a name that is empty or refused.
set_schema(o, field, name) ==
    LET o1 == [o EXCEPT ![field] = name]
    IN  IF name = "" THEN Threw("Schema can not be empty.", o1)
        ELSE IF ~check_identifier(name)
          THEN Threw("Special characters are not allowed in a schema name.", o1)
        ELSE Returned(o1)

\* -k and -j: the options with the mode set, or the exception when a
\* mode is set already.
set_hstore_mode(o, mode) ==
    IF o.hstore_mode # "none"
      THEN Threw("You can not specify both --hstore (-k) and --hstore-all (-j).", o)
    ELSE Returned([o EXCEPT !.hstore_mode = mode])

\* The switch in the loop of parse_command_line, for the options that
\* neither return nor set a local variable.
switch_case(o, a) ==
    CASE a.opt = "a" -> Returned([o EXCEPT !.append = TRUE])
      [] a.opt = "c" -> Returned([o EXCEPT !.create = TRUE])
      [] a.opt = "s" -> Returned([o EXCEPT !.slim = TRUE])
      [] a.opt = "drop" -> Returned([o EXCEPT !.droptemp = TRUE])
      [] a.opt = "C" -> Returned([o EXCEPT !.cache = atoi(a.val)])
      [] a.opt = "middle-schema" -> set_schema(o, "middle_dbschema", a.val)
      [] a.opt = "output-pgsql-schema" -> set_schema(o, "output_dbschema", a.val)
      [] a.opt = "schema" -> set_schema(o, "dbschema", a.val)
      [] a.opt = "k" -> set_hstore_mode(o, "norm")
      [] a.opt = "hstore-match-only" ->
           Returned([o EXCEPT !.hstore_match_only = TRUE])
      [] a.opt = "j" -> set_hstore_mode(o, "all")
      [] a.opt = "l" -> Returned([o EXCEPT !.target_srs = srs_latlong])
      [] a.opt = "e" -> parse_expire_tiles_param(Chars(a.val), o)
      [] a.opt = "middle-database-format" ->
           IF a.val = "legacy"
             THEN Returned([o EXCEPT !.middle_database_format = 1])
           ELSE IF a.val = "new"
             THEN Returned([o EXCEPT !.middle_database_format = 2])
           ELSE Threw("Unknown value for --middle-database-format (Use 'legacy' or 'new').", o)
      [] OTHER -> Threw("Usage error. Try 'osm2pgsql --help'.", o)

\* parse_command_line once getopt_long has returned -1 and -h was not
\* given; first is the index of the first file name.
after_loop(o, args, first) ==
    IF first >= Len(args)
      THEN Threw("Missing input file(s). Try 'osm2pgsql --help'.", o)
    ELSE
      LET o1 == [o EXCEPT !.input_files = input_files_of(args)]
          o2 == IF o1.target_srs = 0
                  THEN [o1 EXCEPT !.target_srs = srs_sphere_merc] ELSE o1
          r  == check_options(o2)
      IN  IF r.thrown # "none" THEN r
          ELSE IF ~r.options.slim
            THEN Returned([r.options EXCEPT !.middle_database_format = 0])
          ELSE r

\* A variant of schema_defaults that falls back to the built-in schema.
schema_defaults_builtin(o) ==
    LET o1 == IF o.middle_dbschema = ""
                THEN [o EXCEPT !.middle_dbschema = options_t.dbschema] ELSE o
    IN  IF o1.output_dbschema = ""
          THEN [o1 EXCEPT !.output_dbschema = options_t.dbschema] ELSE o1

\* The schemas once the loop has ended.
schema_defaults(o) ==
    LET o1 == IF o.middle_dbschema = ""
                THEN [o EXCEPT !.middle_dbschema = o.dbschema] ELSE o
    IN  IF o1.output_dbschema = ""
          THEN [o1 EXCEPT !.output_dbschema = o1.dbschema] ELSE o1

-----------------------------------------------------------------------------
(* Init *)

\* parse_command_line has not been called.
ParserIdle ==
    /\ argv = <<>>
    /\ optind = 0
    /\ options = options_t
    /\ print_help = FALSE
    /\ pc = "idle"
    /\ thrown = "none"


Init ==
    /\ ndebug \in BOOLEAN
    /\ failed = "none"
    /\ m_data = <<>>
    /\ m_committed = 0
    /\ m_base = Base0
    /\ m_capacity = InitialCapacity
    /\ m_builder_count = 0
    /\ builders = <<>>
    /\ live = {}
    /\ hist = <<>>
    /\ calls = 0
    /\ budget = [calls |-> MaxCalls, written |-> MaxWritten,
                 builders |-> MaxBuilders]
    /\ last = Op("init", 0, 0, FALSE)
    /\ ParserIdle

-----------------------------------------------------------------------------
(* Builder::Builder, followed by the concrete builder's construction of   *)
(* the header in the reserved bytes.  parent = 0 is the null pointer.     *)

Open(parent, sz) ==
    /\ failed = "none"
    /\ Len(builders) < budget.builders
    /\ written + sz <= budget.written
    /\ parent = 0 \/ parent \in Ids
    /\ \E moved \in Moves(sz) :
         LET id     == Len(builders) + 1
             offset == written - committed
             op     == Op("open", id, sz, parent # 0)
         IN  IF ~is_aligned(reserve_space(Buf, sz, moved))
               THEN Fail("is_aligned", op)
             ELSE IF ~count_ok(parent, builder_count)
               THEN Fail(IF parent # 0 THEN "one_sub_builder"
                                       ELSE "one_builder", op)
             ELSE
               /\ parent # 0 => ChainLive(parent)
               /\ SetBuffer(open_buffer(Buf, parent, sz, moved))
               /\ builders' = Append(builders,
                      [m_parent |-> parent, m_item_offset |-> offset])
               /\ live' = live \cup {id}
               /\ m_builder_count' =
                      IF ndebug THEN m_builder_count ELSE m_builder_count + 1
               /\ hist' = Append(Fold(hist, Chain(parent), sz),
                                 NewHist(written, sz))
               /\ last' = op
               /\ UNCHANGED <<parser_vars, ndebug, budget, failed, m_committed, calls>>

(* Variants of the destructor: one that commits what was written, one    *)
(* that takes back what was written from the Builder's header on.         *)

Destroy_committing(b) ==
    /\ failed = "none"
    /\ b \in live
    /\ live' = live \ {b}
    /\ m_builder_count' =
           IF ndebug THEN m_builder_count ELSE m_builder_count - 1
    /\ m_committed' = written
    /\ last' = Op("destroy", b, 0, FALSE)
    /\ UNCHANGED <<parser_vars, ndebug, budget, failed, m_data, m_base, m_capacity,
                   builders, hist, calls>>

Destroy_rollback(b) ==
    /\ failed = "none"
    /\ b \in live
    /\ live' = live \ {b}
    /\ m_builder_count' =
           IF ndebug THEN m_builder_count ELSE m_builder_count - 1
    /\ m_data' = SubSeq(m_data, 1, hist[b].at)
    /\ last' = Op("destroy", b, 0, FALSE)
    /\ UNCHANGED <<parser_vars, ndebug, budget, failed, m_committed, m_base, m_capacity,
                   builders, hist, calls>>

(* Builder::~Builder *)

Destroy(b) ==
    /\ failed = "none"
    /\ b \in live
    /\ live' = live \ {b}
    /\ m_builder_count' =
           IF ndebug THEN m_builder_count ELSE m_builder_count - 1
    /\ last' = Op("destroy", b, 0, FALSE)
    /\ UNCHANGED <<parser_vars, ndebug, budget, failed, m_data, m_committed, m_base, m_capacity,
                   builders, hist, calls>>

(* Builder::add_size, called by the concrete builder *)

AddSize(b, sz) ==
    /\ failed = "none"
    /\ b \in live
    /\ ChainLive(b)
    /\ calls < budget.calls
    /\ calls' = calls + 1
    /\ SetBuffer(add_size(Buf, b, sz))
    /\ hist' = [Fold(hist, Chain(b), sz) EXCEPT ![b].grown = @ + sz]
    /\ last' = Op("add_size", b, sz, FALSE)
    /\ UNCHANGED <<parser_vars, ndebug, budget, failed, m_committed, m_builder_count, builders, live>>

(* Builder::add_padding *)

AddPadding(b, self) ==
    /\ failed = "none"
    /\ b \in live
    /\ calls < budget.calls
    /\ LET padding == padding_of(Buf, b)
           h1      == IF self THEN [hist EXCEPT ![b].selfpads = @ + 1]
                              ELSE [hist EXCEPT ![b].pads = @ + 1]
           op      == Op("add_padding", b,
                         IF padding # align_bytes THEN padding ELSE 0, self)
           Done(buf, h) ==
               /\ SetBuffer(buf)
               /\ hist' = h
               /\ last' = op
               /\ calls' = calls + 1
               /\ UNCHANGED <<parser_vars, ndebug, budget, failed, m_committed,
                              m_builder_count, builders, live>>
       IN  IF padding # align_bytes
             THEN
               /\ written + padding <= budget.written
               /\ IF self THEN ChainLive(b)
                          ELSE parent_of(b) # 0 => ChainLive(parent_of(b))
               /\ \E moved \in Moves(padding) :
                    LET b1 == fill_n(reserve_space(Buf, padding, moved),
                                     written, padding)
                        b2 == fold_padding(b1, b, padding, self)
                        to == IF self THEN Chain(b) ELSE Chain(parent_of(b))
                    IN  IF ~self /\ parent_of(b) # 0
                           /\ size(b2, parent_of(b)) % align_bytes # 0
                          THEN Fail("parent_aligned", op)
                        ELSE Done(b2, Fold(h1, to, padding))
             ELSE Done(Buf, h1)

(* A variant of reserve_space_for without the assert. *)

ReserveSpaceFor_unchecked(b, sz) ==
    /\ failed = "none"
    /\ b \in live
    /\ written + sz <= budget.written
    /\ calls < budget.calls
    /\ \E moved \in Moves(sz) : SetBuffer(reserve_space(Buf, sz, moved))
    /\ calls' = calls + 1
    /\ last' = Op("reserve_space_for", b, sz, FALSE)
    /\ UNCHANGED <<parser_vars, ndebug, budget, failed, m_committed, m_builder_count,
                   builders, live, hist>>

(* Builder::reserve_space_for<T>, sizeof(T) = sz; the caller constructs   *)
(* the T in the returned bytes afterwards.                                *)

ReserveSpaceFor(b, sz) ==
    /\ failed = "none"
    /\ b \in live
    /\ written + sz <= budget.written
    /\ calls < budget.calls
    /\ LET op == Op("reserve_space_for", b, sz, FALSE)
       IN  IF ~is_aligned(Buf)
             THEN Fail("reserve_aligned", op)
           ELSE /\ \E moved \in Moves(sz) :
                     SetBuffer(reserve_space(Buf, sz, moved))
                /\ calls' = calls + 1
                /\ last' = op
                /\ UNCHANGED <<parser_vars, ndebug, budget, failed, m_committed, m_builder_count,
                               builders, live, hist>>

(* A variant of the append family that counts what it appends. *)

Appended_counting(b, n, name, buf) ==
    /\ calls < budget.calls
    /\ calls' = calls + 1
    /\ SetBuffer(add_size(buf, b, n))
    /\ hist' = [hist EXCEPT ![b].appended = @ + n]
    /\ last' = Op(name, b, n, FALSE)
    /\ UNCHANGED <<parser_vars, ndebug, budget, failed, m_committed, m_builder_count,
                   builders, live>>

(* The append family.  last.arg is the value returned. *)

Appended(b, n, name, buf) ==
    /\ calls < budget.calls
    /\ calls' = calls + 1
    /\ SetBuffer(buf)
    /\ hist' = [hist EXCEPT ![b].appended = @ + n]
    /\ last' = Op(name, b, n, FALSE)
    /\ UNCHANGED <<parser_vars, ndebug, budget, failed, m_committed, m_builder_count, builders, live>>

\* A variant of append that copies to the first bytes of the storage.
append_front(buf, data, length, moved) ==
    copy_n(reserve_space(buf, length, moved), 0, data, length)

\* Builder::append(const char* data, item_size_type length)
append(buf, data, length, moved) ==
    copy_n(reserve_space(buf, length, moved), Len(buf.data), data, length)

AppendData(b, data) ==
    /\ failed = "none"
    /\ b \in live
    /\ written + Len(data) <= budget.written
    /\ \E moved \in Moves(Len(data)) :
         Appended(b, Len(data), "append", append(Buf, data, Len(data), moved))

\* A variant of append_with_zero that does not write the zero byte.
append_with_zero_unterminated(buf, data, length, moved) ==
    copy_n(reserve_space(buf, length + 1, moved), Len(buf.data), data, length)

\* Builder::append_with_zero
append_with_zero(buf, data, length, moved) ==
    store(copy_n(reserve_space(buf, length + 1, moved), Len(buf.data),
                 data, length),
          Len(buf.data) + length, 0)

AppendWithZero(b, data) ==
    /\ failed = "none"
    /\ b \in live
    /\ written + Len(data) + 1 <= budget.written
    /\ \E moved \in Moves(Len(data) + 1) :
         Appended(b, Len(data) + 1, "append_with_zero",
                  append_with_zero(Buf, data, Len(data), moved))

\* Builder::append(const char* str)
append_str(buf, str, moved) == append(buf, str, strlen(str) + 1, moved)

AppendStr(b, str) ==
    /\ failed = "none"
    /\ b \in live
    /\ written + strlen(str) + 1 <= budget.written
    /\ \E moved \in Moves(strlen(str) + 1) :
         Appended(b, strlen(str) + 1, "append_str", append_str(Buf, str, moved))

\* Builder::append_zero (deprecated)
append_zero(buf, moved) == store(reserve_space(buf, 1, moved), Len(buf.data), 0)

AppendZero(b) ==
    /\ failed = "none"
    /\ b \in live
    /\ written + 1 <= budget.written
    /\ \E moved \in Moves(1) :
         Appended(b, 1, "append_zero", append_zero(Buf, moved))

(* A variant of add_item that counts the item without its padding. *)

add_item_unpadded(buf, b, item, moved) ==
    add_size(buffer_add_item(buf, item, moved), b, item_byte_size(item))

(* Builder::add_item *)

add_item(buf, b, item, moved) ==
    add_size(buffer_add_item(buf, item, moved), b, item_padded_size(item))

AddItem(b, item) ==
    /\ failed = "none"
    /\ b \in live
    /\ ChainLive(b)
    /\ written + item_padded_size(item) <= budget.written
    /\ calls < budget.calls
    /\ calls' = calls + 1
    /\ \E moved \in Moves(item_padded_size(item)) :
         SetBuffer(add_item(Buf, b, item, moved))
    /\ hist' = Fold(hist, Chain(b), item_padded_size(item))
    /\ last' = Op("add_item", b, item_padded_size(item), FALSE)
    /\ UNCHANGED <<parser_vars, ndebug, budget, failed, m_committed, m_builder_count, builders, live>>

(* Buffer::commit, by the owner of the Buffer once no Builder is open:    *)
(* the bytes written become committed, and the Builder objects are gone.  *)

Commit ==
    /\ failed = "none"
    /\ live = {}
    /\ written > m_committed
    /\ written <= MaxCommitted
    /\ m_committed' = written
    /\ builders' = <<>>
    /\ hist' = <<>>
    /\ last' = Op("commit", 0, written, FALSE)
    /\ UNCHANGED <<parser_vars, ndebug, budget, failed, m_data, m_base, m_capacity,
                   m_builder_count, live, calls>>

-----------------------------------------------------------------------------

Next ==
    \/ \E p \in 0..MaxBuilders, sz \in HeaderSizes : Open(p, sz)
    \/ \E b \in Ids : Destroy(b)
    \/ \E b \in Ids, sz \in Deltas : AddSize(b, sz)
    \/ \E b \in Ids, self \in BOOLEAN : AddPadding(b, self)
    \/ \E b \in Ids, sz \in HeaderTypes : ReserveSpaceFor(b, sz)
    \/ \E b \in Ids, data \in Payloads : AppendData(b, data)
    \/ \E b \in Ids, data \in Payloads : AppendWithZero(b, data)
    \/ \E b \in Ids, str \in CStrings : AppendStr(b, str)
    \/ \E b \in Ids : AppendZero(b)
    \/ \E b \in Ids, item \in Items : AddItem(b, item)
    \/ Commit

Spec == Init /\ [][Next]_vars

(* The size protocol alone, followed for more calls: a Builder is opened, *)
(* data is appended and counted, the record is padded, the Builder is     *)
(* destroyed.                                                             *)

InitProtocol ==
    /\ ndebug \in BOOLEAN
    /\ failed = "none"
    /\ m_data = <<>>
    /\ m_committed = 0
    /\ m_base = Base0
    /\ m_capacity = InitialCapacity
    /\ m_builder_count = 0
    /\ builders = <<>>
    /\ live = {}
    /\ hist = <<>>
    /\ calls = 0
    /\ budget = [calls |-> MaxProtocolCalls,
                 written |-> MaxProtocolWritten,
                 builders |-> MaxProtocolBuilders]
    /\ last = Op("init", 0, 0, FALSE)
    /\ ParserIdle

\* The Builder opened last among the open ones.
Innermost == { b \in live : \A c \in live : c <= b }

NextProtocol ==
    \/ \E p \in 0..MaxProtocolBuilders, sz \in HeaderSizes : Open(p, sz)
    \/ \E b \in Innermost : Destroy(b)
    \/ \E b \in Innermost, sz \in Deltas : AddSize(b, sz)
    \/ \E b \in Innermost, self \in BOOLEAN : AddPadding(b, self)
    \/ \E b \in Innermost, data \in Payloads : AppendData(b, data)

SpecProtocol == InitProtocol /\ [][NextProtocol]_vars

-----------------------------------------------------------------------------
(* parse_command_line: the call, one action per stretch of its code.      *)

\* The call ends: it returns the options or an exception leaves it.
Leave(r) ==
    /\ options' = r.options
    /\ thrown' = r.thrown
    /\ pc' = "done"

\* From the entry to the loop: a command line without arguments shows the
\* usage text.
ParseStart ==
    /\ pc = "start"
    /\ IF Len(argv) = 1
         THEN /\ Leave(Returned([options EXCEPT !.command = "help"]))
              /\ UNCHANGED optind
         ELSE /\ pc' = "loop"
              /\ optind' = 1
              /\ UNCHANGED <<options, thrown>>
    /\ UNCHANGED <<builder_vars, argv, print_help>>

\* One turn of the loop: getopt_long returns an option and the switch
\* handles it.
HandleOption ==
    /\ pc = "loop"
    /\ LET i == next_option(argv, optind)
       IN  /\ i < Len(argv)
           /\ optind' = i + 1
           /\ LET a == argv[i + 1]
              IN  CASE a.opt = "h" ->
                         /\ print_help' = TRUE
                         /\ UNCHANGED <<options, thrown, pc>>
                    [] a.opt = "V" ->
                         /\ Leave(Returned([options EXCEPT
                                                !.command = "version"]))
                         /\ UNCHANGED print_help
                    [] OTHER ->
                         LET r == switch_case(options, a)
                         IN  /\ IF r.thrown # "none"
                                  THEN Leave(r)
                                  ELSE /\ options' = r.options
                                       /\ UNCHANGED <<thrown, pc>>
                             /\ UNCHANGED print_help
    /\ UNCHANGED <<builder_vars, argv>>

\* getopt_long returns -1: the rest of parse_command_line.
EndOfOptions ==
    /\ pc = "loop"
    /\ next_option(argv, optind) = Len(argv)
    /\ LET first == Len(argv) - Len(input_files_of(argv))
           o     == schema_defaults(options)
       IN  /\ optind' = IF print_help THEN first ELSE Len(argv)
           /\ IF print_help
                THEN Leave(Returned([o EXCEPT !.command = "help"]))
                ELSE Leave(after_loop(o, argv, first))
    /\ UNCHANGED <<builder_vars, argv, print_help>>

\* The command lines: the program's name and up to MaxArgs arguments.
ArgLists(args, n) == UNION { [1..k -> args] : k \in 0..n }

\* parse_command_line is entered with a command line over args.
Entered(args) ==
    /\ ndebug = FALSE
    /\ failed = "none"
    /\ m_data = <<>>
    /\ m_committed = 0
    /\ m_base = Base0
    /\ m_capacity = InitialCapacity
    /\ m_builder_count = 0
    /\ builders = <<>>
    /\ live = {}
    /\ hist = <<>>
    /\ calls = 0
    /\ budget = [calls |-> 0, written |-> 0, builders |-> 0]
    /\ last = Op("init", 0, 0, FALSE)
    /\ argv \in { <<ProgramName>> \o l :
                    l \in ArgLists(args \cup {File}, MaxArgs) }
    /\ optind = 0
    /\ options = options_t
    /\ print_help = FALSE
    /\ pc = "start"
    /\ thrown = "none"

InitCommandLine == Entered(ModeArgs)

NextCommandLine ==
    \/ ParseStart
    \/ HandleOption
    \/ EndOfOptions

SpecCommandLine == InitCommandLine /\ [][NextCommandLine]_vars

\* The command lines about schemas.
InitSchema == Entered(SchemaArgs)

SpecSchema == InitSchema /\ [][NextCommandLine]_vars

\* The command lines about hstore.
InitHstore == Entered(HstoreArgs)

SpecHstore == InitHstore /\ [][NextCommandLine]_vars

\* The command lines about tile expiry.
InitExpire == Entered(ExpireArgs)

SpecExpire == InitExpire /\ [][NextCommandLine]_vars

-----------------------------------------------------------------------------
(* What the properties below read.                                        *)
(*                                                                        *)
(* The size of a record is read from the bytes themselves, at the place   *)
(* where the record's header was reserved, not through the Builder.       *)

RecSize(data, h, r) == data[h[r].at + 1]

\* The records of the Builders constructed since the last commit, before
\* and after a step.
Recs == 1..Len(hist)

\* The cells that hold a size field.
SizeCells == { hist[r].at + 1 : r \in Recs }

\* A step the call `name` made and that did not abort.
Did(name) == last'.op = name /\ failed' = "none"

\* Record r grows by d in the step.
GrowsBy(r, d) == RecSize(m_data', hist', r) = RecSize(m_data, hist, r) + d

-----------------------------------------------------------------------------
(* C1: add_size(delta) on a Builder increases the size of its own record  *)
(* and of every ancestor's record by exactly delta and changes nothing    *)
(* else: the other records, the bytes written and their number, the       *)
(* committed offset and the counter of open Builders stay as they were.   *)

C1_AddSizeEffect ==
    [][ Did("add_size") =>
          /\ \A r \in Recs :
               GrowsBy(r, IF r \in Chain(last'.b) THEN last'.arg ELSE 0)
          /\ Len(m_data') = Len(m_data)
          /\ \A i \in 1..Len(m_data) :
               i \notin SizeCells => m_data'[i] = m_data[i]
          /\ m_committed' = m_committed
          /\ m_builder_count' = m_builder_count
          /\ live' = live
      ]_vars

\* add_size was called on a sub-Builder that holds uncounted data, while
\* the record of an earlier, destroyed sub-Builder is in the Buffer too.
C1_Witness ==
    /\ last.op = "add_size"
    /\ failed = "none"
    /\ parent_of(last.b) # 0
    /\ Len(builders) = 3
    /\ RecSize(m_data, hist, parent_of(last.b))
         = hist[parent_of(last.b)].header + hist[2].header + hist[3].header
           + last.arg

(* C2: in every reachable state the size of a record is its header size   *)
(* plus the sum of the deltas folded into it by add_size, called on its   *)
(* Builder or on a descendant, by the caller or by a constructor,         *)
(* add_padding or add_item.  In particular a Builder opened with header   *)
(* size H through which L bytes were appended and add_size(L) was called  *)
(* reports size() = H + L.                                                *)

C2_SizeIsHeaderPlusFolded ==
    /\ \A r \in Recs :
         RecSize(m_data, hist, r) = hist[r].header + hist[r].folded
    /\ \A b \in live :
         (/\ hist[b].grown = hist[b].appended
          /\ hist[b].folded = hist[b].grown)
         => size(Buf, b) = hist[b].header + hist[b].appended

\* 10 bytes were appended through a sub-Builder and add_size(10) followed.
C2_Witness ==
    /\ last.op = "add_size"
    /\ failed = "none"
    /\ parent_of(last.b) # 0
    /\ hist[last.b].appended = 10
    /\ hist[last.b].grown = 10
    /\ size(Buf, last.b) = hist[last.b].header + 10

-----------------------------------------------------------------------------
\* A call of add_padding that wrote padding bytes and returned.
Padded == Did("add_padding") /\ last'.arg > 0

\* The record of the Builder add_padding was called on, and of its parent,
\* counts the padding after the call.
OwnUp == GrowsBy(last'.b, last'.arg)

ParUp == parent_of(last'.b) # 0 /\ GrowsBy(parent_of(last'.b), last'.arg)

(* C3, as the specification states it: for every call of add_padding that *)
(* writes p > 0 bytes exactly one of the two records, the Builder's own   *)
(* or its parent's, has its size increased by p; never both, never        *)
(* neither.                                                               *)

C3_ExclusiveOwnership ==
    [][ Padded => (OwnUp /\ ~ParUp) \/ (~OwnUp /\ ParUp) ]_vars

(* C3, as the code has it: a call of add_padding that writes p > 0 bytes  *)
(* increases the size of the Builder's own record by p if and only if     *)
(* self is true, and the size of the parent's record by p whenever there  *)
(* is a parent, whatever self is.  add_padding(true) on a sub-Builder     *)
(* counts the bytes in both records, add_padding(false) on a Builder      *)
(* without a parent counts them in none.                                  *)

C3_PaddingOwnership ==
    [][ Padded =>
          /\ GrowsBy(last'.b, IF last'.self THEN last'.arg ELSE 0)
          /\ parent_of(last'.b) # 0 => GrowsBy(parent_of(last'.b), last'.arg)
          /\ (last'.self /\ parent_of(last'.b) # 0) => (OwnUp /\ ParUp)
          /\ (~last'.self /\ parent_of(last'.b) = 0) => (~OwnUp /\ ~ParUp)
      ]_vars

\* add_padding(true) on a sub-Builder wrote padding: the sub-Builder's
\* record is aligned now, and its parent's record holds the header of the
\* sub-Builder, what was added to the sub-Builder's size, and the padding.
C3_Witness ==
    /\ last.op = "add_padding"
    /\ failed = "none"
    /\ last.self
    /\ last.arg > 0
    /\ parent_of(last.b) # 0
    /\ RecSize(m_data, hist, last.b) % align_bytes = 0
    /\ RecSize(m_data, hist, parent_of(last.b))
         = hist[parent_of(last.b)].header + hist[last.b].header
           + hist[last.b].grown + last.arg

-----------------------------------------------------------------------------
\* The example: a Builder with a header of 16 bytes, a sub-Builder with a
\* header of 8 bytes, 10 bytes appended through the sub-Builder and counted
\* with add_size(10), and nothing else called.
Example(pads) ==
    /\ failed = "none"
    /\ m_committed = 0
    /\ Len(builders) = 2
    /\ parent_of(1) = 0
    /\ parent_of(2) = 1
    /\ hist[1] = [NewHist(0, 16) EXCEPT !.folded = hist[1].folded]
    /\ hist[2] = [NewHist(16, 8) EXCEPT !.folded = hist[2].folded,
                                        !.appended = 10, !.grown = 10,
                                        !.pads = pads]
    /\ calls = 2 + pads

\* The sub-Builder of the example calls add_padding(false).
ExamplePad ==
    /\ Example(0)
    /\ Did("add_padding")
    /\ last'.b = 2
    /\ ~last'.self

\* The sub-Builder of the example is destroyed right after the call of
\* add_padding(false).
ExampleDestroy ==
    /\ Example(1)
    /\ last.op = "add_padding"
    /\ Did("destroy")
    /\ last'.b = 2

\* The sizes of the two records of the example before and after a step.
ExampleSizes(parent_before, child_before, parent_after, child_after) ==
    /\ RecSize(m_data, hist, 1) = parent_before
    /\ RecSize(m_data, hist, 2) = child_before
    /\ RecSize(m_data', hist', 1) = parent_after
    /\ RecSize(m_data', hist', 2) = child_after

(* C4, as the specification states it: in the example the sub-Builder's   *)
(* size is 18; add_padding(false) on it writes 6 bytes, leaves its size   *)
(* at 18 and makes the parent's size 30; destroying the sub-Builder       *)
(* leaves the parent's size at 30.                                        *)

C4_ExampleParent30 ==
    [][ /\ ExamplePad =>
             /\ last'.arg = 6
             /\ RecSize(m_data, hist, 2) = 18
             /\ RecSize(m_data', hist', 2) = 18
             /\ RecSize(m_data', hist', 1) = 30
        /\ ExampleDestroy =>
             /\ RecSize(m_data, hist, 1) = 30
             /\ RecSize(m_data', hist', 1) = 30
      ]_vars

(* C4, as the code has it: in the example add_size(10) on the sub-Builder *)
(* is added to the parent too, so the sizes are 18 and 34 before the call *)
(* of add_padding(false); the call writes 6 bytes, leaves the             *)
(* sub-Builder's size at 18 and makes the parent's size 40; destroying    *)
(* the sub-Builder leaves the sizes at 18 and 40.                         *)

C4_ExampleParent40 ==
    [][ /\ ExamplePad =>
             /\ last'.arg = 6
             /\ Len(m_data') = Len(m_data) + 6
             /\ ExampleSizes(34, 18, 40, 18)
        /\ ExampleDestroy => ExampleSizes(40, 18, 40, 18)
      ]_vars

\* The sub-Builder of the example was destroyed after add_padding(false)
\* had written its 6 bytes.
C4_Witness ==
    /\ Example(1)
    /\ last = Op("destroy", 2, 0, FALSE)
    /\ live = {1}
    /\ Len(m_data) = 16 + 8 + 10 + 6
    /\ RecSize(m_data, hist, 1) = 40

-----------------------------------------------------------------------------
(* C5: add_padding adds the number of padding bytes to the size of the    *)
(* parent's record and of every further ancestor's whenever there is a    *)
(* parent, whatever self is, and to the size of the Builder's own record  *)
(* if and only if self is true.  No other record changes its size.        *)

C5_PaddingGoesToAncestors ==
    [][ Did("add_padding") =>
          \A r \in Recs :
            GrowsBy(r, IF r \in Chain(parent_of(last'.b)) THEN last'.arg
                       ELSE IF r = last'.b /\ last'.self THEN last'.arg
                       ELSE 0)
      ]_vars

\* add_padding(false) on a sub-Builder wrote padding: the sub-Builder's
\* record is not aligned, its parent's is and holds the padding.
C5_Witness ==
    /\ last.op = "add_padding"
    /\ failed = "none"
    /\ ~last.self
    /\ last.arg > 0
    /\ parent_of(last.b) # 0
    /\ RecSize(m_data, hist, last.b) % align_bytes # 0
    /\ RecSize(m_data, hist, parent_of(last.b))
         = hist[parent_of(last.b)].header + hist[last.b].header
           + hist[last.b].grown + last.arg

-----------------------------------------------------------------------------
\* A constructor call with a parent that returned, and the parent given.
Opened == Did("open") /\ last'.self

OpenedUnder == builders'[last'.b].m_parent

(* C6: opening a sub-Builder with a header of h bytes under an open       *)
(* parent advances the number of bytes written by exactly h, increases    *)
(* the size of the parent's record and of every ancestor's by exactly h,  *)
(* leaves the other records' sizes alone and, in an instrumented build,   *)
(* increments the counter of open Builders by 1.  Under a parent just     *)
(* opened with a header of 16 bytes, a sub-Builder with a header of 8     *)
(* bytes makes the parent's size 24.                                      *)

C6_OpenSubBuilder ==
    [][ Opened =>
          /\ Len(m_data') = Len(m_data) + last'.arg
          /\ \A r \in Recs :
               GrowsBy(r, IF r \in Chain(OpenedUnder) THEN last'.arg ELSE 0)
          /\ ~ndebug => m_builder_count' = m_builder_count + 1
          /\ RecSize(m_data', hist', last'.b) = last'.arg
          /\ (RecSize(m_data, hist, OpenedUnder) = 16 /\ last'.arg = 8)
               => RecSize(m_data', hist', OpenedUnder) = 24
      ]_vars

\* An instrumented build opened a sub-Builder with a header of 8 bytes
\* under a Builder with a header of 16 bytes.
C6_Witness ==
    /\ last.op = "open"
    /\ failed = "none"
    /\ last.self
    /\ last.arg = 8
    /\ ~ndebug
    /\ m_builder_count = 2
    /\ hist[parent_of(last.b)].header = 16
    /\ RecSize(m_data, hist, parent_of(last.b)) = 24
    /\ Len(m_data) = 24

-----------------------------------------------------------------------------
(* C7: in an instrumented build a constructor call without a parent       *)
(* aborts unless the counter of open Builders is 0, and a constructor     *)
(* call with a parent aborts unless the counter is exactly 1.  When the   *)
(* bytes written are aligned it is the assert on the counter that fails.  *)

C7_OpenFailsFast ==
    [][ (/\ last'.op = "open"
         /\ ~ndebug
         /\ \/ ~last'.self /\ m_builder_count # 0
            \/ last'.self /\ m_builder_count # 1)
        => /\ failed' # "none"
           /\ Len(m_data) % align_bytes = 0 =>
                failed' = IF last'.self THEN "one_sub_builder"
                                        ELSE "one_builder"
      ]_vars

\* A second sub-Builder was opened while the first was open: the assert on
\* the counter failed.
C7_Witness ==
    /\ ~ndebug
    /\ failed = "one_sub_builder"
    /\ last.op = "open"
    /\ last.self
    /\ last.b = 3

-----------------------------------------------------------------------------
\* The Builders open without and with a parent.
TopLevel == { b \in live : parent_of(b) = 0 }

SubBuilders == { b \in live : parent_of(b) # 0 }

(* C8: in an instrumented build the counter of open Builders equals the   *)
(* number of Builder objects alive and is 0, 1 or 2: at most one Builder  *)
(* without a parent and at most one sub-Builder are open at a time, no    *)
(* two open sub-Builders have the same parent, and the counter is 0 when  *)
(* every Builder constructed has been destroyed.                          *)

C8_CounterIsLiveBuilders ==
    ~ndebug =>
        /\ m_builder_count = Cardinality(live)
        /\ m_builder_count \in {0, 1, 2}
        /\ Cardinality(TopLevel) <= 1
        /\ Cardinality(SubBuilders) <= 1
        /\ \A a \in SubBuilders, b \in SubBuilders :
             parent_of(a) = parent_of(b) => a = b
        /\ live = {} => m_builder_count = 0

\* The second sub-Builder of a Builder is open, the first was destroyed.
C8_Witness ==
    /\ ~ndebug
    /\ failed = "none"
    /\ Len(builders) = 3
    /\ live = {1, 3}
    /\ parent_of(2) = 1
    /\ parent_of(3) = 1
    /\ m_builder_count = 2

-----------------------------------------------------------------------------
\* The bytes a step added at the tail.
AddedBytes == SubSeq(m_data', Len(m_data) + 1, Len(m_data'))

(* C9: add_item(item) places the item's bytes, padding included, at the   *)
(* tail of the bytes written and increases the size of the Builder's      *)
(* record and of every ancestor's by exactly item.padded_size(); no other *)
(* record's size changes.                                                 *)

C9_AddItem ==
    [][ Did("add_item") =>
          \E item \in Items :
            /\ AddedBytes = item
            /\ \A i \in 1..Len(m_data) :
                 i \notin SizeCells => m_data'[i] = m_data[i]
            /\ \A r \in Recs :
                 GrowsBy(r, IF r \in Chain(last'.b) THEN Len(item) ELSE 0)
      ]_vars

\* A sub-Builder added an item of 13 bytes, 16 with its padding.
C9_Witness ==
    /\ last.op = "add_item"
    /\ failed = "none"
    /\ parent_of(last.b) # 0
    /\ RecSize(m_data, hist, last.b) = hist[last.b].header + 16
    /\ RecSize(m_data, hist, parent_of(last.b))
         >= hist[parent_of(last.b)].header + hist[last.b].header + 16
    /\ m_data[Len(m_data) - 15] = 13

-----------------------------------------------------------------------------
AppendFamily == {"append", "append_with_zero", "append_str", "append_zero"}

SizeChangers == {"add_size", "open", "add_padding", "add_item"}

(* C10: append(data, n), append_with_zero(data, n) and append(str) change *)
(* no record's size, neither the Builder's own nor an ancestor's; a       *)
(* record's size changes only in add_size, called by the caller or inside *)
(* a constructor, add_padding or add_item.                                *)

C10_AppendLeavesSizes ==
    [][ /\ (failed' = "none" /\ last'.op \in AppendFamily) =>
              /\ Len(m_data') > Len(m_data)
              /\ \A r \in Recs : GrowsBy(r, 0)
        /\ (failed' = "none" /\ \E r \in Recs : r <= Len(hist') /\ ~GrowsBy(r, 0))
              => last'.op \in SizeChangers
      ]_vars

\* 10 bytes were appended through a sub-Builder: they lie behind its
\* header, and its record and its parent's count none of them.
C10_Witness ==
    /\ last.op = "append"
    /\ failed = "none"
    /\ parent_of(last.b) # 0
    /\ hist[last.b].appended = 10
    /\ Len(m_data) = hist[last.b].at + hist[last.b].header + 10
    /\ RecSize(m_data, hist, last.b) = hist[last.b].header
    /\ RecSize(m_data, hist, parent_of(last.b))
         = hist[parent_of(last.b)].header + hist[last.b].header

-----------------------------------------------------------------------------
\* The size of the record add_padding is called on, before the call.
SizeBefore == RecSize(m_data, hist, last'.b)

\* n zero bytes.
Zeros(n) == [i \in 1..n |-> 0]

(* C11: add_padding(self), for either value of self, called when the size *)
(* of the Builder's record is a multiple of align_bytes writes no byte    *)
(* and leaves the size of the Builder's record and of every other record  *)
(* as it was: the Buffer is unchanged.                                    *)

C11_PadAlignedIsNoOp ==
    [][ (Did("add_padding") /\ SizeBefore % align_bytes = 0) =>
          /\ Len(m_data') = Len(m_data)
          /\ \A r \in Recs : GrowsBy(r, 0)
          /\ m_data' = m_data
          /\ last'.arg = 0
      ]_vars

\* add_padding(true) was called on a sub-Builder that holds its header
\* only: nothing lies behind the header, and the two sizes are those the
\* constructors made.
C11_Witness ==
    /\ last.op = "add_padding"
    /\ failed = "none"
    /\ last.self
    /\ parent_of(last.b) # 0
    /\ RecSize(m_data, hist, last.b) = hist[last.b].header
    /\ Len(m_data) = hist[last.b].at + hist[last.b].header
    /\ RecSize(m_data, hist, parent_of(last.b))
         = hist[parent_of(last.b)].header + hist[last.b].header

(* C12: add_padding(true) on a record whose size s is not a multiple of   *)
(* align_bytes writes exactly align_bytes - (s mod align_bytes) zero      *)
(* bytes at the tail, between 1 and align_bytes - 1 of them, and raises   *)
(* the record's size to the next multiple of align_bytes; a size of 21    *)
(* gives 3 bytes of padding and a size of 24.                             *)

C12_PadSelfRoundsUp ==
    [][ (Did("add_padding") /\ last'.self /\ SizeBefore % align_bytes # 0) =>
          LET p == align_bytes - (SizeBefore % align_bytes)
          IN  /\ p \in 1..(align_bytes - 1)
              /\ last'.arg = p
              /\ Len(m_data') = Len(m_data) + p
              /\ AddedBytes = Zeros(p)
              /\ RecSize(m_data', hist', last'.b) = SizeBefore + p
              /\ RecSize(m_data', hist', last'.b) % align_bytes = 0
              /\ SizeBefore = 21 =>
                   (p = 3 /\ RecSize(m_data', hist', last'.b) = 24)
      ]_vars

\* A Builder with a header of 16 bytes counted 5 bytes more, 21, and
\* add_padding(true) wrote 3 zero bytes and made the size 24.
C12_Witness ==
    /\ last = Op("add_padding", last.b, 3, TRUE)
    /\ failed = "none"
    /\ hist[last.b].header = 16
    /\ hist[last.b].folded = 5 + 3
    /\ RecSize(m_data, hist, last.b) = 24
    /\ SubSeq(m_data, Len(m_data) - 2, Len(m_data)) = Zeros(3)

-----------------------------------------------------------------------------
\* The bytes of b's header behind the size field.
HeaderRest(b) == (hist[b].at + 2)..(hist[b].at + hist[b].header)

(* C13: for an open Builder the address base + committed + m_item_offset  *)
(* designates the same record before and after every call, the calls that *)
(* reserve bytes and move the storage included, as long as committed has  *)
(* not changed: it is the address of the byte, counted from the base of   *)
(* the storage, at which the header was reserved; the bytes of the header *)
(* there are the same, and the size read through the Builder is the size  *)
(* field of that record.                                                  *)

C13_AddressSurvivesRelocation ==
    [][ (failed' = "none" /\ m_committed' = m_committed) =>
          \A b \in live \cap live' :
            /\ item_pos(Buf, b)' - m_base' = item_pos(Buf, b) - m_base
            /\ item_pos(Buf, b)' = m_base' + hist[b].at
            /\ \A i \in HeaderRest(b) : m_data'[i] = m_data[i]
            /\ size(Buf, b)' = RecSize(m_data', hist', b)
      ]_vars

\* The storage was moved by a call that reserved bytes past its capacity
\* while a Builder whose header lies in the first storage was open; the
\* Builder's address is in the new storage.
C13_Witness ==
    /\ failed = "none"
    /\ m_base = Base0 + Stride
    /\ Len(m_data) > InitialCapacity
    /\ \E b \in live :
         /\ hist[b].at + hist[b].header <= InitialCapacity
         /\ item_pos(Buf, b) = Base0 + Stride + hist[b].at
         /\ size(Buf, b) = hist[b].header + hist[b].folded

-----------------------------------------------------------------------------
\* The calls made on Builders, constructor and destructor included.
BuilderOps ==
    {"open", "destroy", "add_size", "add_padding", "reserve_space_for",
     "add_item"} \cup AppendFamily

\* The committed offset at the time b was constructed: m_item_offset is the
\* distance from it to the first byte of the header.
CommittedAtOpen(b) == hist'[b].at - builders'[b].m_item_offset

(* C14: no call on a Builder (constructor, append family, add_padding,    *)
(* add_size, add_item, reserve_space_for, destructor) changes the         *)
(* committed offset of the Buffer, and while a Builder is open the offset *)
(* has the value it had when the Builder was constructed.                 *)

C14_CommittedUnchanged ==
    [][ failed' = "none" =>
          /\ last'.op \in BuilderOps => m_committed' = m_committed
          /\ \A b \in live' : m_committed' = CommittedAtOpen(b)
          /\ last'.op = "destroy" =>
               m_committed' = hist[last'.b].at - builders[last'.b].m_item_offset
      ]_vars

\* A record of 8 bytes was committed, and a Builder constructed after that
\* has been called: committed is still 8.
C14_Witness ==
    /\ failed = "none"
    /\ m_committed = 8
    /\ last.op \in BuilderOps \ {"open", "destroy"}
    /\ last.b \in live
    /\ hist[last.b].at = 8
    /\ builders[last.b].m_item_offset = 0
    /\ Len(m_data) > 8 + hist[last.b].header

(* C15: destroying a Builder changes only the counter of open Builders,   *)
(* by minus 1 in an instrumented build and not at all in an NDEBUG build: *)
(* the bytes written, their number, the committed offset, the storage and *)
(* every record's size stay as they were, so bytes appended and not       *)
(* counted stay in the Buffer; nothing is taken back or committed.        *)

C15_DestroyChangesCounterOnly ==
    [][ Did("destroy") =>
          /\ m_data' = m_data
          /\ Len(m_data') = Len(m_data)
          /\ m_committed' = m_committed
          /\ m_base' = m_base
          /\ m_capacity' = m_capacity
          /\ \A r \in Recs : GrowsBy(r, 0)
          /\ m_builder_count' =
                 IF ndebug THEN m_builder_count ELSE m_builder_count - 1
          /\ builders' = builders
      ]_vars

\* An instrumented build destroyed a Builder through which 10 bytes were
\* appended and never counted: the bytes are in the Buffer, behind the
\* header, the record's size is that of the header, nothing is committed.
C15_Witness ==
    /\ last.op = "destroy"
    /\ failed = "none"
    /\ ~ndebug
    /\ last.b \notin live
    /\ m_builder_count = Cardinality(live)
    /\ hist[last.b].appended = 10
    /\ hist[last.b].folded = 0
    /\ RecSize(m_data, hist, last.b) = hist[last.b].header
    /\ Len(m_data) = hist[last.b].at + hist[last.b].header + 10
    /\ m_committed = 0

-----------------------------------------------------------------------------
\* The cells that hold the size field of an open Builder's record.
OpenSizeCells == { hist[r].at + 1 : r \in live }

(* C16: the bytes written are only added to: their number never           *)
(* decreases, every constructor, append, add_padding, add_item and        *)
(* reserve_space_for call places its bytes behind the bytes written       *)
(* before, so that data and sub-records lie in the order in which they    *)
(* were added, and a byte written before the call is not changed by it    *)
(* unless it is the size field of an open Builder's record.               *)

C16_AppendOnlyTail ==
    [][ failed' = "none" =>
          /\ Len(m_data') >= Len(m_data)
          /\ \A i \in 1..Len(m_data) :
               m_data'[i] # m_data[i] => i \in OpenSizeCells
          /\ last'.op \in {"destroy", "add_size", "commit"} =>
               Len(m_data') = Len(m_data)
      ]_vars

\* Two headers, then the string appended through the sub-Builder, lie in
\* the Buffer in that order, and add_size has since changed the two size
\* fields below them.
C16_Witness ==
    /\ last.op = "add_size"
    /\ failed = "none"
    /\ Len(builders) = 2
    /\ parent_of(last.b) = 1
    /\ hist[2].at = hist[1].at + hist[1].header
    /\ SubSeq(m_data, hist[2].at + hist[2].header + 1, Len(m_data))
         = <<72, 105, 0>>
    /\ RecSize(m_data, hist, 2) = hist[2].header + last.arg
    /\ RecSize(m_data, hist, 1) = hist[1].header + hist[2].header + last.arg

-----------------------------------------------------------------------------
\* The place of the terminator in the memory str points to.
FirstZero(str) ==
    CHOOSE k \in 1..Len(str) :
      str[k] = 0 /\ \A j \in 1..(k - 1) : str[j] # 0

(* C17: append(data, n) places exactly the n bytes of data at the tail    *)
(* and returns n; append_with_zero(data, n) places the n bytes followed   *)
(* by exactly one zero byte and returns n + 1; append(str) places the     *)
(* bytes of the string followed by its terminator and returns             *)
(* strlen(str) + 1; the number of bytes written grows by the value        *)
(* returned.                                                              *)

C17_AppendFamilyBytes ==
    [][ /\ Did("append") =>
             \E data \in Payloads :
               /\ AddedBytes = data
               /\ last'.arg = Len(data)
        /\ Did("append_with_zero") =>
             \E data \in Payloads :
               /\ AddedBytes = data \o <<0>>
               /\ last'.arg = Len(data) + 1
        /\ Did("append_str") =>
             \E str \in CStrings :
               /\ AddedBytes = SubSeq(str, 1, FirstZero(str))
               /\ last'.arg = FirstZero(str)
        /\ (failed' = "none" /\ last'.op \in AppendFamily) =>
             Len(m_data') = Len(m_data) + last'.arg
      ]_vars

\* append_with_zero wrote the 10 bytes given and one zero byte behind the
\* string "Hi" and its terminator, which append(str) had written.
C17_Witness ==
    /\ last = Op("append_with_zero", last.b, 11, FALSE)
    /\ failed = "none"
    /\ hist[last.b].appended = 3 + 11
    /\ Len(m_data) = hist[last.b].at + hist[last.b].header + 14
    /\ SubSeq(m_data, Len(m_data) - 13, Len(m_data))
         = <<72, 105, 0, 1, 2, 3, 4, 5, 6, 7, 8, 9, 10, 0>>

-----------------------------------------------------------------------------
(* C18: reserve_space_for<T> requires the bytes written to be aligned: an *)
(* instrumented build aborts when they are not.  When the call returns,   *)
(* the number of bytes written has grown by exactly sizeof(T), the bytes  *)
(* written before are unchanged and no record's size has changed.         *)

C18_ReserveSpaceFor ==
    [][ /\ (last'.op = "reserve_space_for" /\ ~ndebug
            /\ Len(m_data) % align_bytes # 0)
           => failed' = "reserve_aligned"
        /\ Did("reserve_space_for") =>
             /\ Len(m_data) % align_bytes = 0
             /\ last'.arg \in HeaderTypes
             /\ Len(m_data') = Len(m_data) + last'.arg
             /\ SubSeq(m_data', 1, Len(m_data)) = m_data
             /\ \A r \in Recs : GrowsBy(r, 0)
      ]_vars

\* An instrumented build called reserve_space_for after an append had left
\* the bytes written unaligned: the assert failed.
C18_Witness ==
    /\ ~ndebug
    /\ failed = "reserve_aligned"
    /\ last.op = "reserve_space_for"

\* reserve_space_for returned 8 bytes behind a header; the record's size is
\* still that of the header.
C18_Reserved ==
    /\ failed = "none"
    /\ last.op = "reserve_space_for"
    /\ Len(m_data) = hist[last.b].at + hist[last.b].header + 8
    /\ RecSize(m_data, hist, last.b) = hist[last.b].header

-----------------------------------------------------------------------------
\* The header of the Builder add_padding is called on began on an aligned
\* byte.
BeganAligned == hist[last'.b].at % align_bytes = 0

(* C19, as the specification states it: if the bytes written were aligned *)
(* when the Builder's header began and every byte appended through the    *)
(* Builder has been added to its size by add_size, then after             *)
(* add_padding, with either value of self, the bytes written are aligned. *)

C19_PadAlignsAfterOwnAppends ==
    [][ (/\ Did("add_padding")
         /\ BeganAligned
         /\ hist[last'.b].grown = hist[last'.b].appended)
        => Len(m_data') % align_bytes = 0
      ]_vars

(* C19, as the code has it: if the bytes written were aligned when the    *)
(* Builder's header began and the size of the Builder's record is the     *)
(* number of bytes written from the first byte of its header on (the      *)
(* bytes written through its sub-Builders and by earlier calls of         *)
(* add_padding included), then after add_padding, with either value of    *)
(* self, the bytes written are aligned.                                   *)

C19_PadAlignsCountedRecord ==
    [][ (/\ Did("add_padding")
         /\ BeganAligned
         /\ SizeBefore = Len(m_data) - hist[last'.b].at)
        => /\ Len(m_data') % align_bytes = 0
           /\ is_aligned(Buf)'
      ]_vars

\* A Builder without a parent appended 10 bytes and counted them;
\* add_padding(false) wrote 6 bytes, which no record counts, and the bytes
\* written are aligned.
C19_Witness ==
    /\ last = Op("add_padding", 1, 6, FALSE)
    /\ failed = "none"
    /\ Len(builders) = 1
    /\ hist[1].appended = 10
    /\ hist[1].grown = 10
    /\ RecSize(m_data, hist, 1) = hist[1].header + 10
    /\ Len(m_data) = hist[1].header + 16
    /\ is_aligned(Buf)

-----------------------------------------------------------------------------
\* The option is on the command line, at any place.
Given(name) == \E i \in 2..Len(argv) : argv[i].opt = name

\* parse_command_line has returned the configuration of an import.
ReturnedImport ==
    /\ pc = "done"
    /\ thrown = "none"
    /\ options.command \notin {"help", "version"}

\* The command line breaks one of the three rules about -a, -c, -s and
\* --drop; the message of the first rule broken, in the order in which
\* check_options looks at them.
ModeViolation ==
    \/ Given("a") /\ Given("c")
    \/ Given("a") /\ ~Given("s")
    \/ Given("drop") /\ ~Given("s")

ModeMessage ==
    IF Given("a") /\ Given("c")
      THEN "--append and --create options can not be used at the same time!"
    ELSE IF Given("a") /\ ~Given("s")
      THEN "--append can only be used with slim mode!"
    ELSE "--drop only makes sense with --slim."

\* What ends the call before check_options: -V or an argument getopt_long
\* does not know among those the loop reaches, -h, or no file name.
EndsEarly ==
    \/ Given("V") \/ Given("?") \/ Given("h")
    \/ ~Given("FILE")

(* C20: parse_command_line returns the configuration of an import (the    *)
(* command is neither help nor version) only if append and create are not *)
(* both set, append implies slim and drop implies slim; a command line    *)
(* that breaks one of these rules and asks for an import ends in an       *)
(* exception, in whatever order -a, -c, -s and --drop stand on it.        *)

C20_ModeOptionsChecked ==
    /\ ReturnedImport =>
         /\ ~(options.append /\ options.create)
         /\ options.append => options.slim
         /\ options.droptemp => options.slim
         /\ options.append = Given("a")
         /\ options.create = Given("c")
         /\ options.slim = Given("s")
         /\ options.droptemp = Given("drop")
         /\ ~ModeViolation
    /\ (pc = "done" /\ ModeViolation) =>
         \/ thrown # "none"
         \/ options.command \in {"help", "version"}
    /\ (pc = "done" /\ ModeViolation /\ ~EndsEarly) => thrown = ModeMessage

\* --create stands before the file name, --slim and --append behind it:
\* the exception about --append and --create was thrown.
C20_Witness ==
    /\ pc = "done"
    /\ argv = <<ProgramName, Arg("c", ""), File, Arg("s", ""), Arg("a", "")>>
    /\ thrown = "--append and --create options can not be used at the same time!"

\* --slim stands behind --append and the file name: an import is returned.
C20_Import ==
    /\ ReturnedImport
    /\ argv = <<ProgramName, Arg("a", ""), File, Arg("s", "")>>
    /\ options.append
    /\ options.slim
    /\ options.input_files = <<File>>

-----------------------------------------------------------------------------
\* The argument of the last -e on the command line.
LastExpire ==
    LET i == CHOOSE k \in 2..Len(argv) :
               /\ argv[k].opt = "e"
               /\ \A m \in (k + 1)..Len(argv) : argv[m].opt # "e"
    IN  Chars(argv[i].val)

\* The argument is one number and nothing else.
SingleValue(arg) ==
    /\ arg # <<>>
    /\ \A i \in 1..Len(arg) : isdigit(arg[i])

\* The two numbers of an argument N or A-B of -e.
FirstLevel(arg) == read_digits(arg, 1, 0).value

SecondLevel(arg) ==
    IF SingleValue(arg) THEN FirstLevel(arg)
    ELSE read_digits(arg, read_digits(arg, 1, 0).next + 1, 0).value

Capped(n) == IF n > max_zoom THEN max_zoom ELSE n

(* C21, strong form: after a successful parse in which -e was given, the  *)
(* zoom levels satisfy 0 < expire_tiles_zoom_min <= expire_tiles_zoom     *)
(* < 32, and a single value N gives min = max = N.                        *)

C21_Capped ==
    /\ ReturnedImport
    /\ argv = <<ProgramName, Arg("e", "40"), File>>
    /\ options.expire_tiles_zoom_min = 31
    /\ options.expire_tiles_zoom = 31

\* -e 7 after -l: the minimum is 7, the maximum 0.
C21_Disabled ==
    /\ ReturnedImport
    /\ argv = <<ProgramName, Arg("l", ""), Arg("e", "7"), File>>
    /\ options.expire_tiles_zoom_min = 7
    /\ options.expire_tiles_zoom = 0

-----------------------------------------------------------------------------
\* The value of the last option of that name on the command line.
LastVal(name) ==
    LET i == CHOOSE k \in 2..Len(argv) :
               /\ argv[k].opt = name
               /\ \A m \in (k + 1)..Len(argv) : argv[m].opt # name
    IN  argv[i].val

\* The final --schema setting.
FinalSchema == IF Given("schema") THEN LastVal("schema") ELSE "public"

\* parse_command_line has returned past its loop: an import, or the help
\* -h asked for.
ParsedAll ==
    /\ pc = "done"
    /\ thrown = "none"
    /\ options.command # "version"
    /\ Len(argv) > 1

(* C22: after a successful parse, middle_dbschema is the value of         *)
(* --middle-schema if that option was given and the final --schema        *)
(* setting otherwise, and output_dbschema is the value of                 *)
(* --output-pgsql-schema if given and the final --schema setting          *)
(* otherwise, in whatever order the three options stand.                  *)

C22_SchemaDefaults ==
    ParsedAll =>
      /\ options.dbschema = FinalSchema
      /\ options.middle_dbschema =
           IF Given("middle-schema") THEN LastVal("middle-schema")
           ELSE FinalSchema
      /\ options.output_dbschema =
           IF Given("output-pgsql-schema") THEN LastVal("output-pgsql-schema")
           ELSE FinalSchema

\* --schema stands behind --output-pgsql-schema and the file name; the
\* middle takes the schema given last.
C22_Witness ==
    /\ ReturnedImport
    /\ argv = <<ProgramName, Arg("output-pgsql-schema", "o"),
                Arg("schema", "a"), File, Arg("schema", "b")>>
    /\ options.middle_dbschema = "b"
    /\ options.output_dbschema = "o"
    /\ options.dbschema = "b"

-----------------------------------------------------------------------------
(* C28: parse_command_line raises the error 'You can not specify both     *)
(* --hstore (-k) and --hstore-all (-j)' exactly when both -k and -j are   *)
(* on the command line; otherwise hstore_mode is norm when -k was given,  *)
(* all when -j was given and none when neither was given.  Command lines  *)
(* with -V, which returns before the rest is read, are left aside.        *)

C28_HstoreModesExclusive ==
    (pc = "done" /\ ~Given("V")) =>
      /\ (thrown = "You can not specify both --hstore (-k) and --hstore-all (-j).")
           <=> (Given("k") /\ Given("j"))
      /\ thrown = "none" =>
           options.hstore_mode =
             IF Given("k") THEN "norm"
             ELSE IF Given("j") THEN "all" ELSE "none"

-----------------------------------------------------------------------------
(* C23: the address base + committed + m_item_offset of a Builder just    *)
(* constructed is the address of the first of the bytes its constructor   *)
(* reserved for the header: the byte that followed the bytes written      *)
(* before.  The header lies there, and every byte of the record, the      *)
(* header included, lies at or behind that address and within the bytes   *)
(* written.                                                               *)

C23_RecordStartsAtHeader ==
    [][ Did("open") =>
          \A b \in DOMAIN builders' :
            b = last'.b =>
              /\ builders'[b].m_item_offset = Len(m_data) - m_committed
              /\ Len(m_data') = Len(m_data) + last'.arg
              /\ item_pos(Buf, b)' = m_base' + Len(m_data)
              /\ item_index(Buf, b)' = Len(m_data)
              /\ m_data'[Len(m_data) + 1] = last'.arg
              /\ size(Buf, b)' = last'.arg
              /\ item_index(Buf, b)' + size(Buf, b)' = Len(m_data')
      ]_vars

\* A sub-Builder was constructed behind 8 committed bytes, and reserving
\* its header moved the storage: its address is in the new storage, at the
\* first byte of its header.
C23_Witness ==
    /\ failed = "none"
    /\ last.op = "open"
    /\ last.b \in live
    /\ m_committed = 8
    /\ m_base = Base0 + Stride
    /\ builders[last.b].m_parent # 0
    /\ item_pos(Buf, last.b) = m_base + Len(m_data) - last.arg
    /\ size(Buf, last.b) = last.arg

-----------------------------------------------------------------------------
\* The size of record r is the number of bytes written from the first byte
\* of its header on, and the header began on an aligned byte.
Counted(r) ==
    /\ RecSize(m_data, hist, r) = Len(m_data) - hist[r].at
    /\ hist[r].at % align_bytes = 0

\* add_padding(false) is called on a sub-Builder.
PadsSubBuilder ==
    /\ last'.op = "add_padding"
    /\ ~last'.self
    /\ failed = "none"
    /\ last'.b \in live
    /\ parent_of(last'.b) # 0

(* C24, strong form: the assertion in add_padding never fails in a        *)
(* sequence of operations that respects the preconditions of the          *)
(* constructor (a sequence in which no assertion of a constructor has     *)
(* failed).                                                               *)

C24_PadAssertNeverFails == failed # "parent_aligned"

(* C24, as the code has it: when add_padding(false) is called on a        *)
(* sub-Builder whose record and whose parent's record each count exactly  *)
(* the bytes written since their header began, the assertion in           *)
(* add_padding does not fail, and if padding was written the parent's     *)
(* size is afterwards a multiple of align_bytes.                          *)

C24_PadKeepsCountedParentAligned ==
    [][ (/\ PadsSubBuilder
         /\ Counted(last'.b)
         /\ Counted(parent_of(last'.b)))
        => /\ failed' = "none"
           /\ RecSize(m_data', hist', parent_of(last'.b))
                = RecSize(m_data, hist, parent_of(last'.b)) + last'.arg
           /\ RecSize(m_data', hist', parent_of(last'.b)) % align_bytes = 0
      ]_vars

\* A sub-Builder with a header of 16 bytes appended 10 bytes and counted
\* them; add_padding(false) wrote 6 bytes and the parent counts them.
C24_Witness ==
    /\ failed = "none"
    /\ last = Op("add_padding", 2, 6, FALSE)
    /\ builders[2].m_parent = 1
    /\ hist[2].header = 16
    /\ RecSize(m_data, hist, 2) = 26
    /\ RecSize(m_data, hist, 1) = Len(m_data) - hist[1].at
    /\ RecSize(m_data, hist, 1) % align_bytes = 0

-----------------------------------------------------------------------------
\* The constructor is called, for a header whose size is a multiple of
\* align_bytes.
Opens ==
    /\ last'.op = "open"
    /\ failed = "none"
    /\ last'.arg % align_bytes = 0

\* The number of open Builders is the one the constructor asserts.
CountAllows == count_ok(IF last'.self THEN 1 ELSE 0, builder_count)

\* Every byte appended through a Builder was counted by add_size on it.
AppendsCounted == \A r \in Recs : hist[r].grown = hist[r].appended

\* Every sub-Builder that was destroyed had called add_padding.
SubBuildersPadded ==
    \A r \in Recs \ live :
      builders[r].m_parent # 0 => hist[r].pads + hist[r].selfpads > 0

(* C25, strong form: whenever a Builder is opened with a header size that *)
(* is a multiple of align_bytes, the assertion of the constructor that    *)
(* the bytes written are aligned holds, in every sequence in which each   *)
(* earlier append was counted by add_size and each earlier sub-Builder    *)
(* called add_padding before it was destroyed.  Only constructor calls    *)
(* whose other assertions hold are looked at.                             *)

-----------------------------------------------------------------------------
\* add_padding(true) returns, and the call before was add_padding(true) on
\* the same Builder.
PadsSelfAgain ==
    /\ Did("add_padding")
    /\ last'.self
    /\ failed = "none"
    /\ last.op = "add_padding"
    /\ last.self
    /\ last.b = last'.b

(* C26: add_padding(true) is idempotent: a second add_padding(true)       *)
(* called on the same Builder right after a first one writes no byte and  *)
(* changes no record's size.                                              *)

C26_PadSelfIdempotent ==
    [][ PadsSelfAgain =>
          /\ last'.arg = 0
          /\ Len(m_data') = Len(m_data)
          /\ m_data' = m_data
          /\ \A r \in Recs : GrowsBy(r, 0)
      ]_vars

\* A Builder with a header of 8 bytes counted 5 bytes; the first
\* add_padding(true) wrote 3 bytes and made its size 16, the second wrote
\* nothing.
C26_Witness ==
    /\ failed = "none"
    /\ last = Op("add_padding", 1, 0, TRUE)
    /\ hist[1].header = 8
    /\ hist[1].grown = 5
    /\ hist[1].selfpads = 2
    /\ hist[1].pads = 0
    /\ Len(m_data) = 11
    /\ RecSize(m_data, hist, 1) = 16

-----------------------------------------------------------------------------
\* The records under the record of t: t and the Builders that reach t
\* through m_parent.
Tree(h, t) == { r \in 1..Len(h) : t \in Chain(r) }

\* The bytes appended through the first n Builders of the tree of t that
\* add_size has not counted.
RECURSIVE UncountedUpTo(_, _, _)
UncountedUpTo(h, t, n) ==
    IF n = 0 THEN 0
    ELSE UncountedUpTo(h, t, n - 1)
           + (IF n \in Tree(h, t) THEN h[n].appended - h[n].grown ELSE 0)

UncountedAppends(h, t) == UncountedUpTo(h, t, Len(h))

\* add_size was only called with lengths of appends not yet counted.
GrowsFollowAppends(h, t) == \A r \in Tree(h, t) : h[r].grown <= h[r].appended

\* The bytes reserved since the header of t began, its header included:
\* written - committed - m_item_offset.
BytesSince(data, t) == Len(data) - m_committed - builders[t].m_item_offset

\* The bytes reserved since the header of t began that its size does not
\* count.
Gap(data, h, t) == BytesSince(data, t) - RecSize(data, h, t)

(* C27, strong form: in every state of a sequence in which add_size is    *)
(* only called with lengths returned by earlier appends that were not yet *)
(* counted, the size of the record of the open Builder without a parent   *)
(* is at most written - committed - m_item_offset, and the two are equal  *)
(* exactly when no appended or padding bytes are uncounted.  The states   *)
(* looked at for the equality are those in which the Builder never called *)
(* add_padding(false), the call whose padding no record counts.           *)

C27_SizeEqualsWrittenWhenCounted ==
    \A t \in TopLevel :
      (failed = "none" /\ GrowsFollowAppends(hist, t)) =>
        /\ RecSize(m_data, hist, t) <= BytesSince(m_data, t)
        /\ (hist[t].pads = 0 /\ UncountedAppends(hist, t) = 0)
             => RecSize(m_data, hist, t) = BytesSince(m_data, t)
        /\ RecSize(m_data, hist, t) = BytesSince(m_data, t)
             => UncountedAppends(hist, t) = 0

\* The bytes a step reserves without any call adding them to the record of
\* t (positive), or counts without reserving them (negative).
UncountedInStep(t) ==
    CASE last'.op \in AppendFamily -> Len(m_data') - Len(m_data)
      [] last'.op = "reserve_space_for" -> Len(m_data') - Len(m_data)
      [] last'.op = "add_padding" ->
           IF last'.b = t /\ ~last'.self THEN last'.arg ELSE 0
      [] last'.op = "add_size" -> 0 - last'.arg
      [] OTHER -> 0

(* C27, as the code has it: the size of the record of the open Builder    *)
(* without a parent is written - committed - m_item_offset less the bytes *)
(* no call has counted: the bytes appended and not yet given to add_size, *)
(* the padding the Builder's own add_padding(false) wrote, and the bytes  *)
(* reserve_space_for reserved.  In a sequence in which add_size is only   *)
(* called with lengths of earlier appends not yet counted the size is     *)
(* never larger than the bytes reserved, and the two are equal exactly    *)
(* when none of these three kinds of bytes is uncounted.                  *)

C27_SizeWithinWritten ==
    [][ failed' = "none" =>
          \A t \in TopLevel' :
            /\ t \notin live => Gap(m_data, hist, t)' = 0
            /\ t \in live =>
                 Gap(m_data, hist, t)' = Gap(m_data, hist, t) + UncountedInStep(t)
            /\ GrowsFollowAppends(hist, t)' =>
                 /\ Gap(m_data, hist, t)' >= UncountedAppends(hist, t)'
                 /\ UncountedAppends(hist, t)' >= 0
                 /\ RecSize(m_data, hist, t)' <= BytesSince(m_data, t)'
      ]_vars

\* A sub-Builder appended 10 bytes and counted them: the record of the
\* Builder without a parent counts every byte reserved since its header
\* began.
C27_Witness ==
    /\ failed = "none"
    /\ last = Op("add_size", 2, 10, FALSE)
    /\ 1 \in TopLevel
    /\ builders[2].m_parent = 1
    /\ hist[2].appended = 10
    /\ hist[2].grown = 10
    /\ RecSize(m_data, hist, 1) = BytesSince(m_data, 1)
    /\ RecSize(m_data, hist, 1) = hist[1].header + hist[2].header + 10

=============================================================================
